---------------------------- MODULE Spec2Model ----------------------------
(***************************************************************************)
(* Model of src/app.py (FinancyControl): the bank-statement extraction     *)
(* pipeline.  Strings are TLA+ strings, read character by character with   *)
(* SubSeq, so that the text operations of the program (strip, upper,       *)
(* re.sub, startswith, the money regular expression) are computed as the   *)
(* program computes them.                                                  *)
(***************************************************************************)
EXTENDS Integers, Sequences, FiniteSets, TLC

VARIABLES
    \* normalize_merchant, applied to a description and then to its own output
    description, merchant, merchant_again, nm_calls,
    \* parse_transactions_from_text_lines: its argument, loop position, locals
    lines, line_idx, line_txns, line_pc,
    \* parse_transactions_from_tables: its argument, loop position, locals
    tables, header_row_index, col_map, row_idx, table_txns, table_pc,
    \* upload / parse_transactions_from_pdf: the request's files and the handler's locals
    files, file_idx, pdf_pc, pdf_calls, pdf_result, all_transactions, flashes, saved,
    \* the database: the rows of the two tables, and the last response of the
    \* update-category and clear-category routes
    db_transactions, db_merchant_category, response

nm_vars == <<description, merchant, merchant_again, nm_calls>>
line_vars == <<lines, line_idx, line_txns, line_pc>>
table_vars == <<tables, header_row_index, col_map, row_idx, table_txns, table_pc>>
upload_vars == <<files, file_idx, pdf_pc, pdf_calls, pdf_result, all_transactions, flashes, saved>>
db_vars == <<db_transactions, db_merchant_category, response>>
vars == <<nm_vars, line_vars, table_vars, upload_vars, db_vars>>

\* Optional[T]: None is the empty tuple, a value v is the tuple <<v>>
None == <<>>
Some(v) == <<v>>

-----------------------------------------------------------------------------
(* Bounds of the model *)

\* a description is built from at most MaxParts pieces
MaxParts == 3
\* a text-line input has at most MaxLines lines
MaxLines == 2
\* a table input has at most MaxRows data rows after its header
MaxRows == 2
\* an upload request carries at most MaxFiles files
MaxFiles == 2
\* the transactions table holds at most MaxStored rows
MaxStored == 3
\* one call of save_transactions is given at most MaxBatch transactions
MaxBatch == 2

-----------------------------------------------------------------------------
(* Python string primitives over the model's alphabet *)

Ch(s, i) == SubSeq(s, i, i)

MinOf(S) == CHOOSE x \in S : \A y \in S : x <= y
MaxOf(S) == CHOOSE x \in S : \A y \in S : x >= y

\* the characters str.strip() removes and the regex class \s matches
Whitespace == {" ", "\t"}

Digits == {"0", "1", "2", "3", "4", "5", "6", "7", "8", "9"}

IsDigit(s, i) == i >= 1 /\ i <= Len(s) /\ Ch(s, i) \in Digits

DigitVal(c) ==
    CASE c = "0" -> 0 [] c = "1" -> 1 [] c = "2" -> 2 [] c = "3" -> 3 [] c = "4" -> 4
      [] c = "5" -> 5 [] c = "6" -> 6 [] c = "7" -> 7 [] c = "8" -> 8 [] c = "9" -> 9

\* str.strip(chars): drop leading and trailing characters that are in C
StripChars(s, C) ==
    LET K == {i \in 1..Len(s) : Ch(s, i) \notin C}
    IN  IF K = {} THEN "" ELSE SubSeq(s, MinOf(K), MaxOf(K))

\* str.strip()
Strip(s) == StripChars(s, Whitespace)

RECURSIVE CollapseFrom(_, _, _)
CollapseFrom(s, i, inRun) ==
    IF i > Len(s) THEN ""
    ELSE IF Ch(s, i) \in Whitespace
         THEN (IF inRun THEN "" ELSE " ") \o CollapseFrom(s, i + 1, TRUE)
         ELSE Ch(s, i) \o CollapseFrom(s, i + 1, FALSE)

\* re.sub(r"\s+", " ", s): every maximal run of whitespace becomes one space
CollapseWs(s) == CollapseFrom(s, 1, FALSE)

LowerChars == "abcdefghijklmnopqrstuvwxyzáàâãéêíóôõúüç"
UpperChars == "ABCDEFGHIJKLMNOPQRSTUVWXYZÁÀÂÃÉÊÍÓÔÕÚÜÇ"

LowerSet == {Ch(LowerChars, i) : i \in 1..Len(LowerChars)}
UpperMap == [c \in LowerSet |-> Ch(UpperChars, CHOOSE i \in 1..Len(LowerChars) : Ch(LowerChars, i) = c)]

UpperCh(c) == IF c \in LowerSet THEN UpperMap[c] ELSE c

RECURSIVE UpperFrom(_, _)
UpperFrom(s, i) == IF i > Len(s) THEN "" ELSE UpperCh(Ch(s, i)) \o UpperFrom(s, i + 1)

\* str.upper()
Upper(s) == UpperFrom(s, 1)

AccentedChars == "ÁÀÂÃÉÊÍÓÔÕÚÜÇáàâãéêíóôõúüç"
BaseChars     == "AAAAEEIOOOUUCaaaaeeiooouuc"

AccentedSet == {Ch(AccentedChars, i) : i \in 1..Len(AccentedChars)}
BaseMap == [c \in AccentedSet |-> Ch(BaseChars, CHOOSE i \in 1..Len(AccentedChars) : Ch(AccentedChars, i) = c)]

BaseCh(c) == IF c \in AccentedSet THEN BaseMap[c] ELSE c

RECURSIVE BaseFrom(_, _)
BaseFrom(s, i) == IF i > Len(s) THEN "" ELSE BaseCh(Ch(s, i)) \o BaseFrom(s, i + 1)

\* NFD-decompose and drop the combining marks
strip_accents(s) == BaseFrom(s, 1)

\* str.startswith
StartsWith(s, p) == Len(s) >= Len(p) /\ SubSeq(s, 1, Len(p)) = p

\* the `in` operator on strings
Contains(s, sub) ==
    \E i \in 1..(Len(s) - Len(sub) + 1) : SubSeq(s, i, i + Len(sub) - 1) = sub

\* s[n:]
DropFirst(s, n) == SubSeq(s, n + 1, Len(s))

-----------------------------------------------------------------------------
(* normalize_merchant *)

NORMALIZATION_PREFIXES ==
    << "PIX ENVIADO",
       "PIX RECEBIDO",
       "PAGAMENTO DE BOLETO",
       "PAGAMENTO BOLETO",
       "PAGTO BOLETO",
       "CREDITO DE SALARIO",
       "DEBITO AUT.",
       "COMPRA CARTAO" >>

PrefixSeparators == {" ", "-", ":", "/"}

\* index of the first prefix the text starts with, 0 when there is none
FirstPrefix(upper) ==
    LET K == {k \in 1..Len(NORMALIZATION_PREFIXES) : StartsWith(upper, NORMALIZATION_PREFIXES[k])}
    IN  IF K = {} THEN 0 ELSE MinOf(K)

normalize_merchant(d) ==
    LET text == Strip(CollapseWs(d))
        upper == Upper(text)
        k == FirstPrefix(upper)
    IN  IF k # 0
        THEN LET trimmed == StripChars(DropFirst(upper, Len(NORMALIZATION_PREFIXES[k])),
                                       PrefixSeparators)
             IN  CollapseWs(trimmed)
        ELSE CollapseWs(upper)

\* the pieces descriptions are built from
DescParts ==
    { "PIX ENVIADO", "pix recebido", "PAGAMENTO BOLETO",
      " ", "\t", " - ", "/", "Acme Ltda", "Padaria São João" }

RECURSIVE Joined(_)
Joined(n) ==
    IF n = 0 THEN {""}
    ELSE LET shorter == Joined(n - 1)
         IN  shorter \cup {a \o b : a \in shorter, b \in DescParts}

DescInputs == Joined(MaxParts)

NmInit ==
    /\ description \in DescInputs
    /\ merchant = ""
    /\ merchant_again = ""
    /\ nm_calls = 0

\* merchant = normalize_merchant(description)
NormalizeMerchant ==
    /\ nm_calls = 0
    /\ merchant' = normalize_merchant(description)
    /\ nm_calls' = 1
    /\ UNCHANGED <<description, merchant_again>>

\* the result is fed back: normalize_merchant(normalize_merchant(x))
NormalizeAgain ==
    /\ nm_calls = 1
    /\ merchant_again' = normalize_merchant(merchant)
    /\ nm_calls' = 2
    /\ UNCHANGED <<description, merchant>>

-----------------------------------------------------------------------------
(* parse_brl_amount: a decimal value is [n |-> digits as an integer, d |-> *)
(* number of fractional digits], i.e. n / 10^d, kept without trailing      *)
(* fractional zeros so that equal values are equal records                 *)

RECURSIVE DecNorm(_)
DecNorm(v) ==
    IF v.n = 0 THEN [n |-> 0, d |-> 0]
    ELSE IF v.d > 0 /\ v.n % 10 = 0 THEN DecNorm([n |-> v.n \div 10, d |-> v.d - 1])
    ELSE v

DecNeg(v) == [n |-> 0 - v.n, d |-> v.d]
DecAbs(v) == IF v.n < 0 THEN DecNeg(v) ELSE v
DecIsPositive(v) == v.n > 0

\* str.replace(sub, rep): leftmost, non-overlapping occurrences
RECURSIVE ReplaceFrom(_, _, _, _)
ReplaceFrom(s, sub, rep, i) ==
    IF i > Len(s) THEN ""
    ELSE IF i + Len(sub) - 1 <= Len(s) /\ SubSeq(s, i, i + Len(sub) - 1) = sub
         THEN rep \o ReplaceFrom(s, sub, rep, i + Len(sub))
         ELSE Ch(s, i) \o ReplaceFrom(s, sub, rep, i + 1)

Replace(s, sub, rep) == ReplaceFrom(s, sub, rep, 1)

RECURSIVE DigitsValue(_, _)
DigitsValue(s, acc) ==
    IF s = "" THEN acc
    ELSE IF Ch(s, 1) \in Digits THEN DigitsValue(DropFirst(s, 1), acc * 10 + DigitVal(Ch(s, 1)))
    ELSE DigitsValue(DropFirst(s, 1), acc)

\* float(txt) on plain decimal notation: optional "+", digits with at most one ".",
\* at least one digit; anything else raises ValueError (None here).  Exponents,
\* "inf", "nan" and "_" separators are outside the amount inputs of the model.
FloatParse(txt) ==
    LET t == Strip(txt)
        body == IF StartsWith(t, "+") THEN DropFirst(t, 1) ELSE t
        dots == {i \in 1..Len(body) : Ch(body, i) = "."}
        digs == {i \in 1..Len(body) : Ch(body, i) \in Digits}
    IN  IF /\ Cardinality(dots) <= 1
           /\ digs # {}
           /\ dots \cup digs = 1..Len(body)
        THEN Some(DecNorm([n |-> DigitsValue(body, 0),
                           d |-> IF dots = {} THEN 0
                                 ELSE Len(body) - (CHOOSE i \in dots : TRUE)]))
        ELSE None

parse_brl_amount(raw) ==
    IF raw = "" THEN None
    ELSE LET txt1 == Strip(Replace(Strip(raw), "R$", ""))
             is_negative == Contains(txt1, "-")
             txt2 == Replace(Replace(Replace(txt1, "-", ""), ".", ""), ",", ".")
             value == FloatParse(txt2)
         IN  IF value = None THEN None
             ELSE IF is_negative THEN Some(DecNorm(DecNeg(value[1])))
             ELSE value

-----------------------------------------------------------------------------
(* parse_date: a date is <<year, month, day>> *)

IsLeap(y) == (y % 4 = 0 /\ y % 100 # 0) \/ y % 400 = 0

DaysIn(y, m) ==
    IF m \in {4, 6, 9, 11} THEN 30
    ELSE IF m = 2 THEN (IF IsLeap(y) THEN 29 ELSE 28)
    ELSE 31

AllDigits(s) == s # "" /\ \A i \in 1..Len(s) : Ch(s, i) \in Digits

\* datetime.strptime(raw, fmt) for fmt "%d/%m/%Y" (yearLen 4) or "%d/%m/%y"
\* (yearLen 2): day and month of one or two digits, the whole string consumed,
\* and a date of the calendar; None stands for ValueError
Strptime(raw, yearLen) ==
    LET slashes == {i \in 1..Len(raw) : Ch(raw, i) = "/"}
    IN  IF Cardinality(slashes) # 2 THEN None
        ELSE LET s1 == MinOf(slashes)
                 s2 == MaxOf(slashes)
                 dd == SubSeq(raw, 1, s1 - 1)
                 mm == SubSeq(raw, s1 + 1, s2 - 1)
                 yy == SubSeq(raw, s2 + 1, Len(raw))
             IN  IF /\ AllDigits(dd) /\ Len(dd) <= 2
                    /\ AllDigits(mm) /\ Len(mm) <= 2
                    /\ AllDigits(yy) /\ Len(yy) = yearLen
                 THEN LET d == DigitsValue(dd, 0)
                          m == DigitsValue(mm, 0)
                          y0 == DigitsValue(yy, 0)
                          y == IF yearLen = 4 THEN y0
                               ELSE IF y0 <= 68 THEN 2000 + y0 ELSE 1900 + y0
                      IN  IF m >= 1 /\ m <= 12 /\ y >= 1 /\ d >= 1 /\ d <= DaysIn(y, m)
                          THEN Some(<<y, m, d>>)
                          ELSE None
                 ELSE None

parse_date(raw0) ==
    LET raw == Strip(raw0)
        full == Strptime(raw, 4)
    IN  IF full # None THEN full ELSE Strptime(raw, 2)

-----------------------------------------------------------------------------
(* Transaction *)

Transaction(date, description_full, merchant_normalized, txn_type, amount) ==
    [date |-> date, description_full |-> description_full,
     merchant_normalized |-> merchant_normalized, txn_type |-> txn_type,
     amount |-> amount, category |-> None]

-----------------------------------------------------------------------------
(* parse_transactions_from_text_lines *)

RECURSIVE GroupsEnd(_, _)
\* (?:\.\d{3})* from index k: the index after the last ".ddd" group
GroupsEnd(s, k) ==
    IF k <= Len(s) /\ Ch(s, k) = "." /\ IsDigit(s, k + 1) /\ IsDigit(s, k + 2) /\ IsDigit(s, k + 3)
    THEN GroupsEnd(s, k + 4)
    ELSE k

\* money_pattern -?\d{1,3}(?:\.\d{3})*,\d{2} tried at index i: the index of the
\* match's last character, 0 when the pattern does not match there
MoneyMatchEnd(s, i) ==
    LET j == IF Ch(s, i) = "-" THEN i + 1 ELSE i
        nd == IF ~IsDigit(s, j) THEN 0
              ELSE IF ~IsDigit(s, j + 1) THEN 1
              ELSE IF ~IsDigit(s, j + 2) THEN 2
              ELSE IF ~IsDigit(s, j + 3) THEN 3
              ELSE 4
        k == GroupsEnd(s, j + nd)
    IN  IF /\ nd >= 1 /\ nd <= 3
           /\ k <= Len(s) /\ Ch(s, k) = ","
           /\ IsDigit(s, k + 1) /\ IsDigit(s, k + 2)
        THEN k + 2
        ELSE 0

RECURSIVE MoneyFindFrom(_, _)
\* money_pattern.finditer(raw): the <<start, end>> of every match, left to right
MoneyFindFrom(s, pos) ==
    LET K == {i \in pos..Len(s) : MoneyMatchEnd(s, i) # 0}
    IN  IF K = {} THEN <<>>
        ELSE LET i == MinOf(K)
             IN  <<<<i, MoneyMatchEnd(s, i)>>>> \o MoneyFindFrom(s, MoneyMatchEnd(s, i) + 1)

MoneyFindIter(s) == MoneyFindFrom(s, 1)

DateTokenLen == 10

\* re.match(r"(\d{2}/\d{2}/\d{4})\s+(.*)", raw): None, or <<[date_raw, rest]>>
MatchLeadingDate(raw) ==
    IF /\ Len(raw) > DateTokenLen
       /\ \A i \in {1, 2, 4, 5, 7, 8, 9, 10} : IsDigit(raw, i)
       /\ Ch(raw, 3) = "/" /\ Ch(raw, 6) = "/"
       /\ Ch(raw, DateTokenLen + 1) \in Whitespace
    THEN LET after == {i \in (DateTokenLen + 1)..Len(raw) : Ch(raw, i) \notin Whitespace}
         IN  Some([date_raw |-> SubSeq(raw, 1, DateTokenLen),
                   rest |-> IF after = {} THEN "" ELSE SubSeq(raw, MinOf(after), Len(raw))])
    ELSE None

CreditKeywords == {"CREDITO", "PIX RECEBIDO", "DEPOSITO"}

\* faulty variant: with three or more matches the last two are taken, the running
\* balance as the debit
SelectMoneyLastTwo(raw, money_values, description_raw) ==
    LET n == Len(money_values)
    IN  IF n >= 3
        THEN [credit_raw |-> money_values[n - 1], debit_raw |-> money_values[n]]
        ELSE LET candidate == money_values[n - 1]
                 desc_upper == strip_accents(Upper(description_raw))
             IN  IF \E key \in CreditKeywords : Contains(desc_upper, key)
                 THEN [credit_raw |-> candidate, debit_raw |-> ""]
                 ELSE [credit_raw |-> "", debit_raw |-> candidate]

\* the credit and debit strings chosen from the monetary matches of a line
SelectMoney(raw, money_values, description_raw) ==
    LET n == Len(money_values)
    IN  IF n >= 3
        THEN [credit_raw |-> money_values[n - 2], debit_raw |-> money_values[n - 1]]
        ELSE LET candidate == money_values[n - 1]
                 desc_upper == strip_accents(Upper(description_raw))
             IN  IF \E key \in CreditKeywords : Contains(desc_upper, key)
                 THEN [credit_raw |-> candidate, debit_raw |-> ""]
                 ELSE [credit_raw |-> "", debit_raw |-> candidate]

\* faulty variant: the credit is emitted only when no debit was (elif for the second if)
EmitTransactionsElif(date, description_full, merchant_, credit, debit) ==
    IF debit # None /\ DecIsPositive(DecAbs(debit[1]))
    THEN <<Transaction(date, description_full, merchant_, "debit", DecAbs(debit[1]))>>
    ELSE IF credit # None /\ DecIsPositive(DecAbs(credit[1]))
    THEN <<Transaction(date, description_full, merchant_, "credit", credit[1])>>
    ELSE <<>>

\* the transactions one row or line emits from its parsed credit and debit
EmitTransactions(date, description_full, merchant_, credit, debit) ==
    (IF debit # None /\ DecIsPositive(DecAbs(debit[1]))
     THEN <<Transaction(date, description_full, merchant_, "debit", DecAbs(debit[1]))>>
     ELSE <<>>)
    \o
    (IF credit # None /\ DecIsPositive(DecAbs(credit[1]))
     THEN <<Transaction(date, description_full, merchant_, "credit", credit[1])>>
     ELSE <<>>)

\* one iteration of the loop over lines: what the line was skipped for ("" when it
\* was not), the locals it computed and the transactions it appends
TextLineBody(line) ==
    LET raw == Strip(line)
        m_date == MatchLeadingDate(raw)
        skipped(why) == [skip |-> why, money |-> <<>>, credit |-> None, debit |-> None,
                         description_full |-> "", emitted |-> <<>>]
    IN  IF raw = "" THEN skipped("blank")
        ELSE IF m_date = None THEN skipped("no leading date")
        ELSE LET date_raw == m_date[1].date_raw
                 rest == m_date[1].rest
                 date == parse_date(date_raw)
             IN  IF date = None THEN skipped("unparseable date")
                 ELSE IF StartsWith(strip_accents(Upper(rest)), "DATA ") THEN skipped("header")
                 ELSE LET money_matches == MoneyFindIter(raw)
                      IN  IF Len(money_matches) < 2
                          THEN [skipped("too few amounts") EXCEPT
                                    !.money = [k \in 1..Len(money_matches) |->
                                                 SubSeq(raw, money_matches[k][1], money_matches[k][2])]]
                          ELSE LET first_money_start == money_matches[1][1]
                                   description_raw ==
                                       Strip(SubSeq(raw, Len(date_raw) + 1, first_money_start - 1))
                                   money_values ==
                                       [k \in 1..Len(money_matches) |->
                                           SubSeq(raw, money_matches[k][1], money_matches[k][2])]
                                   sel == SelectMoney(raw, money_values, description_raw)
                                   credit == IF sel.credit_raw # "" THEN parse_brl_amount(sel.credit_raw)
                                             ELSE None
                                   debit == IF sel.debit_raw # "" THEN parse_brl_amount(sel.debit_raw)
                                            ELSE None
                                   description_full == Strip(CollapseWs(description_raw))
                                   merchant_ == normalize_merchant(description_full)
                               IN  IF credit = None /\ debit = None
                                   THEN [skipped("no amount") EXCEPT !.money = money_values]
                                   ELSE [skip |-> "", money |-> money_values,
                                         credit |-> credit, debit |-> debit,
                                         description_full |-> description_full,
                                         emitted |-> EmitTransactions(date[1], description_full,
                                                                      merchant_, credit, debit)]

RECURSIVE TextLinesFrom(_, _, _)
TextLinesFrom(ls, i, transactions) ==
    IF i > Len(ls) THEN transactions
    ELSE TextLinesFrom(ls, i + 1, transactions \o TextLineBody(ls[i]).emitted)

parse_transactions_from_text_lines(ls) == TextLinesFrom(ls, 1, <<>>)

-----------------------------------------------------------------------------
(* parse_transactions_from_tables: rows are tuples of cell strings, indexed *)
(* from 1; index 0 stands for "not found" / "not in col_map"                *)

RECURSIVE JoinUpperFrom(_, _)
\* " ".join((cell or "").upper() for cell in row)
JoinUpperFrom(row, i) ==
    IF i > Len(row) THEN ""
    ELSE Upper(row[i]) \o (IF i < Len(row) THEN " " ELSE "") \o JoinUpperFrom(row, i + 1)

IsHeaderRow(row) ==
    LET header_norm == strip_accents(JoinUpperFrom(row, 1))
    IN  Contains(header_norm, "DATA") /\ Contains(header_norm, "DESCRI")
        /\ Contains(header_norm, "CREDITO")

\* the index of the first row that is a header, 0 when there is none
FindHeaderRow(tbl) ==
    LET K == {idx \in 1..Len(tbl) : IsHeaderRow(tbl[idx])}
    IN  IF K = {} THEN 0 ELSE MinOf(K)

EmptyColMap == [date |-> 0, description |-> 0, credit |-> 0, debit |-> 0]

\* the if/elif chain on one header cell: the role the cell is assigned to
CellRole(col) ==
    LET col_norm == strip_accents(Upper(col))
    IN  IF Contains(col_norm, "DATA") THEN "date"
        ELSE IF Contains(col_norm, "DESCRI") THEN "description"
        ELSE IF Contains(col_norm, "CREDITO") THEN "credit"
        ELSE IF Contains(col_norm, "DEBITO") THEN "debit"
        ELSE "none"

\* faulty variant: a role that is already mapped keeps its first column
AssignColumnFirstWins(cm, role, i) ==
    IF role = "none" \/ cm[role] # 0 THEN cm ELSE [cm EXCEPT ![role] = i]

\* col_map[role] = i
AssignColumn(cm, role, i) ==
    IF role = "none" THEN cm ELSE [cm EXCEPT ![role] = i]

RECURSIVE BuildColMapFrom(_, _, _)
BuildColMapFrom(header, i, cm) ==
    IF i > Len(header) THEN cm
    ELSE BuildColMapFrom(header, i + 1, AssignColumn(cm, CellRole(header[i]), i))

BuildColMap(header) == BuildColMapFrom(header, 1, EmptyColMap)

HasRequiredCols(cm) == cm.date # 0 /\ cm.description # 0 /\ cm.credit # 0 /\ cm.debit # 0

\* one iteration of the loop over the rows after the header
TableRowBody(row, header, cm) ==
    LET skipped(why) == [skip |-> why, credit |-> None, debit |-> None,
                         description_full |-> "", emitted |-> <<>>]
    IN  IF Len(row) < Len(header) THEN skipped("short row")
        ELSE LET date_raw == row[cm.date]
                 description_raw == row[cm.description]
                 credit_raw == row[cm.credit]
                 debit_raw == row[cm.debit]
                 date == parse_date(date_raw)
                 credit == parse_brl_amount(credit_raw)
                 debit == parse_brl_amount(debit_raw)
                 description_full == Strip(CollapseWs(description_raw))
                 merchant_ == normalize_merchant(description_full)
             IN  IF date_raw = "" \/ description_raw = "" THEN skipped("empty cell")
                 ELSE IF date = None THEN skipped("unparseable date")
                 ELSE IF credit = None /\ debit = None THEN skipped("no amount")
                 ELSE [skip |-> "", credit |-> credit, debit |-> debit,
                       description_full |-> description_full,
                       emitted |-> EmitTransactions(date[1], description_full,
                                                    merchant_, credit, debit)]

RECURSIVE TableRowsFrom(_, _, _, _, _)
TableRowsFrom(tbl, i, header, cm, transactions) ==
    IF i > Len(tbl) THEN transactions
    ELSE TableRowsFrom(tbl, i + 1, header, cm,
                       transactions \o TableRowBody(tbl[i], header, cm).emitted)

parse_transactions_from_tables(tbl) ==
    IF tbl = <<>> THEN <<>>
    ELSE LET h == FindHeaderRow(tbl)
         IN  IF h = 0 THEN <<>>
             ELSE LET cm == BuildColMap(tbl[h])
                  IN  IF ~HasRequiredCols(cm) THEN <<>>
                      ELSE TableRowsFrom(tbl, h + 1, tbl[h], cm, <<>>)

-----------------------------------------------------------------------------
(* The normalizer on its own: SpecNormalize *)

NmIdle == description = "" /\ merchant = "" /\ merchant_again = "" /\ nm_calls = 0

LinesIdle == lines = <<>> /\ line_idx = 0 /\ line_txns = <<>> /\ line_pc = "idle"

TablesIdle ==
    /\ tables = <<>> /\ header_row_index = 0 /\ col_map = EmptyColMap
    /\ row_idx = 0 /\ table_txns = <<>> /\ table_pc = "idle"

UploadIdle ==
    /\ files = <<>> /\ file_idx = 0 /\ pdf_pc = "off" /\ pdf_calls = <<>>
    /\ pdf_result = <<>> /\ all_transactions = <<>> /\ flashes = <<>> /\ saved = <<>>

\* init_db: the two tables exist and are empty
DbIdle == db_transactions = <<>> /\ db_merchant_category = {} /\ response = None

InitNormalize == NmInit /\ LinesIdle /\ TablesIdle /\ UploadIdle /\ DbIdle

NextNormalize ==
    \/ NormalizeMerchant /\ UNCHANGED <<line_vars, table_vars, upload_vars, db_vars>>
    \/ NormalizeAgain /\ UNCHANGED <<line_vars, table_vars, upload_vars, db_vars>>

SpecNormalize == InitNormalize /\ [][NextNormalize]_vars

-----------------------------------------------------------------------------
(* The two parsers, one call each: SpecParsers *)

\* the two statement lines of run_smoke_test
SmokeLines ==
    << "15/12/2025 CREDITO DE SALARIO ACME LTDA        000000    000000      1.350,00      0,00   1.350,00",
       "17/12/2025 PIX ENVIADO STRIPE BRASIL SOLUCOES DE 000000  000000      0,00      119,90  -2.636,87" >>

LineInputs ==
    { "15/12/2025 CREDITO DE SALARIO ACME LTDA 000000 1.350,00 0,00 1.350,00",
      "18/12/2025 ESTORNO COMPRA -5,00 0,00 100,00",
      "19/12/2025 TRANSFERENCIA 10,00 7,00 103,00",
      "20/12/2025 Depósito em conta 50,00 153,00",
      "21/12/2025 TARIFA BANCARIA 2,50 150,50",
      "22/12/2025 PIX  RECEBIDO JOAO 30,00 180,50",
      "23/12/2025 pix recebido maria -4,00 176,50",
      "24/12/2025 SALDO ANTERIOR 176,50",
      "SALDO DO DIA 176,50 176,50",
      "31/02/2025 PAGAMENTO BOLETO 1,00 2,00 3,00",
      "25/12/2025 Data Descrição Crédito 1,00 2,00 3,00",
      "   ",
      "26/12/2025 COMPRA CARTAO LOJA 0,00 176,50",
      "27/12/2025 JUROS 1,00 0,00 3,00 4,00",
      "\t28/12/2025\tCREDITO JUROS 0,10 0,00 176,60 " }

RECURSIVE SeqsUpTo(_, _)
\* the sequences of at most n elements of S
SeqsUpTo(S, n) ==
    IF n = 0 THEN {<<>>}
    ELSE LET shorter == SeqsUpTo(S, n - 1)
         IN  shorter \cup {Append(q, x) : q \in shorter, x \in S}

LinesInit ==
    /\ lines \in SeqsUpTo(LineInputs, MaxLines) \cup {SmokeLines}
    /\ line_idx = 0
    /\ line_txns = <<>>
    /\ line_pc = "loop"

\* faulty variant: a line that is skipped ends the scan
TextLineStepAbortOnSkip ==
    /\ line_pc = "loop"
    /\ line_idx < Len(lines)
    /\ LET body == TextLineBody(lines[line_idx + 1])
       IN  /\ line_txns' = line_txns \o body.emitted
           /\ line_pc' = IF body.skip # "" THEN "returned" ELSE line_pc
    /\ line_idx' = line_idx + 1
    /\ UNCHANGED lines

\* one iteration of `for line in lines`
TextLineStep ==
    /\ line_pc = "loop"
    /\ line_idx < Len(lines)
    /\ line_txns' = line_txns \o TextLineBody(lines[line_idx + 1]).emitted
    /\ line_idx' = line_idx + 1
    /\ UNCHANGED <<lines, line_pc>>

\* return transactions
TextLinesReturn ==
    /\ line_pc = "loop"
    /\ line_idx = Len(lines)
    /\ line_pc' = "returned"
    /\ UNCHANGED <<lines, line_idx, line_txns>>

HeaderInputs ==
    { <<"Data", "Descrição", "Crédito", "Débito", "Saldo">>,
      <<"Data", "Descrição", "Crédito", "Débito", "Data Valor">>,
      <<"DATA", "HISTORICO", "CREDITO", "DEBITO", "SALDO">>,
      <<"Data", "Descrição", "Crédito (R$)", "Valor", "Saldo">>,
      <<"Débito", "Crédito", "Descrição", "Data", "Crédito">>,
      <<"Data", "Descrição / Data", "Crédito", "Débito", "Descrição">> }

\* rows that come before the header row
PreambleInputs == << <<"Extrato de conta", "", "", "", "10/12/2025">> >>

PlainHeader == <<"Data", "Descrição", "Crédito", "Débito", "Saldo">>

RowInputs ==
    { <<"15/12/2025", "Credito de Salario  ACME", "1.350,00", "0,00", "16/12/2025">>,
      <<"17/12/2025", "PIX ENVIADO LOJA", "", "R$ 119,90", "1.230,10">>,
      <<"18/12/2025", "Estorno", "-5,00", "7,00", "Estorno de compra">>,
      <<"31/02/2025", "Invalida", "1,00", "2,00", "">>,
      <<"19/12/2025", "", "1,00", "2,00", "19/12/2025">>,
      <<"20/12/2025", "Tarifa", "abc", "", "20/12/25">>,
      <<"21/12/2025", "Curta", "3,00">>,
      <<"10,00", "1,00", "Padaria", "17/12/2025", "-5,00">> }

TablesInit ==
    /\ tables \in {<<>>} \cup
                  {<<h>> \o rows : h \in HeaderInputs, rows \in SeqsUpTo(RowInputs, MaxRows)} \cup
                  {PreambleInputs \o <<PlainHeader>> \o rows : rows \in SeqsUpTo(RowInputs, MaxRows)}
    /\ header_row_index = 0
    /\ col_map = EmptyColMap
    /\ row_idx = 0
    /\ table_txns = <<>>
    /\ table_pc = "start"

\* from the entry of the function to the loop over the data rows
TableFindHeader ==
    /\ table_pc = "start"
    /\ \E h \in {IF tables = <<>> THEN 0 ELSE FindHeaderRow(tables)} :
       \E cm \in {IF h = 0 THEN EmptyColMap ELSE BuildColMap(tables[h])} :
           /\ header_row_index' = h
           /\ col_map' = cm
           /\ row_idx' = h
           /\ table_pc' = IF h # 0 /\ HasRequiredCols(cm) THEN "rows" ELSE "returned"
    /\ UNCHANGED <<tables, table_txns>>

\* one iteration of `for row in tables[header_row_index + 1 :]`
TableRowStep ==
    /\ table_pc = "rows"
    /\ row_idx < Len(tables)
    /\ table_txns' = table_txns \o
                       TableRowBody(tables[row_idx + 1], tables[header_row_index], col_map).emitted
    /\ row_idx' = row_idx + 1
    /\ UNCHANGED <<tables, header_row_index, col_map, table_pc>>

\* return transactions
TableReturn ==
    /\ table_pc = "rows"
    /\ row_idx = Len(tables)
    /\ table_pc' = "returned"
    /\ UNCHANGED <<tables, header_row_index, col_map, row_idx, table_txns>>

InitParsers ==
    /\ NmIdle /\ UploadIdle /\ DbIdle
    /\ \/ LinesInit /\ TablesIdle
       \/ LinesIdle /\ TablesInit

NextParsers ==
    \/ TextLineStep /\ UNCHANGED <<nm_vars, table_vars, upload_vars, db_vars>>
    \/ TextLinesReturn /\ UNCHANGED <<nm_vars, table_vars, upload_vars, db_vars>>
    \/ TableFindHeader /\ UNCHANGED <<nm_vars, line_vars, upload_vars, db_vars>>
    \/ TableRowStep /\ UNCHANGED <<nm_vars, line_vars, upload_vars, db_vars>>
    \/ TableReturn /\ UNCHANGED <<nm_vars, line_vars, upload_vars, db_vars>>

SpecParsers == InitParsers /\ [][NextParsers]_vars

-----------------------------------------------------------------------------
(* upload and parse_transactions_from_pdf: Spec                             *)
(*                                                                         *)
(* A file of the request is what the extraction libraries do with its      *)
(* bytes: each extractor either raises or returns rows / lines.            *)

Raises == [raises |-> TRUE, value |-> <<>>]
Returns(v) == [raises |-> FALSE, value |-> v]

StatementTable ==
    << <<"Data", "Descrição", "Crédito", "Débito", "Saldo">>,
       <<"15/12/2025", "Credito de Salario  ACME", "1.350,00", "0,00", "1.350,00">>,
       <<"17/12/2025", "PIX ENVIADO LOJA", "", "119,90", "1.230,10">> >>

StatementLines ==
    << "Extrato de conta corrente",
       "19/12/2025 TRANSFERENCIA 10,00 7,00 103,00",
       "SALDO DO DIA 103,00" >>

NoiseLines == << "Extrato de conta corrente", "24/12/2025 SALDO ANTERIOR 176,50" >>

OcrLines == << "20/12/2025 Depósito em conta 50,00 153,00" >>

\* extract_tables_from_pdf raises, finds no table (<<>>), or returns the rows of a
\* table; extract_text_lines_from_pdf raises or returns text lines;
\* extract_text_with_ocr raises, returns [] (no OCR installed, or no text), or lines

NotAPdf == [is_pdf |-> FALSE, tab |-> Raises, txt |-> Raises, ocr |-> Raises]

Pdf(tab, txt, ocr) == [is_pdf |-> TRUE, tab |-> tab, txt |-> txt, ocr |-> ocr]

\* every outcome of every attempt, the later extractors once ready to return
\* transactions and once ready to raise
FileInputs ==
    { NotAPdf,
      Pdf(Returns(StatementTable), Returns(StatementLines), Returns(OcrLines)),
      Pdf(Returns(StatementTable), Raises, Raises),
      Pdf(Raises, Returns(StatementLines), Returns(OcrLines)),
      Pdf(Returns(<<>>), Returns(StatementLines), Returns(OcrLines)),
      Pdf(Returns(<<>>), Returns(StatementLines), Raises),
      Pdf(Returns(<<>>), Raises, Returns(OcrLines)),
      Pdf(Returns(<<>>), Returns(NoiseLines), Returns(OcrLines)),
      Pdf(Returns(<<>>), Returns(NoiseLines), Returns(<<>>)),
      Pdf(Returns(<<>>), Returns(NoiseLines), Raises) }

Flash(category, message, about) == [category |-> category, message |-> message, about |-> about]

UploadInit ==
    /\ files \in SeqsUpTo(FileInputs, MaxFiles)
    /\ file_idx = 0
    /\ pdf_pc = "idle"
    /\ pdf_calls = <<>>
    /\ pdf_result = <<>>
    /\ all_transactions = <<>>
    /\ flashes = <<>>
    /\ saved = <<>>

\* upload: "pdf_files" not in request.files
UploadNoFiles ==
    /\ pdf_pc = "idle"
    /\ files = <<>>
    /\ flashes' = Append(flashes, Flash("danger", "Nenhum arquivo enviado.", 0))
    /\ pdf_pc' = "done"
    /\ UNCHANGED <<files, file_idx, pdf_calls, pdf_result, all_transactions, saved>>

\* upload: the head of `for f in files`, up to the call of parse_transactions_from_pdf
UploadNextFile ==
    /\ pdf_pc = "idle"
    /\ file_idx < Len(files)
    /\ IF ~files[file_idx + 1].is_pdf
       THEN /\ flashes' = Append(flashes, Flash("warning", "Arquivo ignorado", file_idx + 1))
            /\ file_idx' = file_idx + 1
            /\ UNCHANGED <<pdf_pc, pdf_calls, pdf_result>>
       ELSE /\ pdf_pc' = "tables"
            /\ pdf_calls' = <<>>
            /\ pdf_result' = <<>>
            /\ UNCHANGED <<flashes, file_idx>>
    /\ UNCHANGED <<files, all_transactions, saved>>

\* faulty variant: the table attempt's transactions do not end the fallback chain
AttemptTablesNoShortCircuit ==
    /\ pdf_pc = "tables"
    /\ pdf_calls' = Append(pdf_calls, "extract_tables_from_pdf")
    /\ LET out == files[file_idx + 1].tab
       IN  IF out.raises
           THEN pdf_pc' = "raised" /\ UNCHANGED pdf_result
           ELSE pdf_pc' = "text" /\ pdf_result' = parse_transactions_from_tables(out.value)
    /\ UNCHANGED <<files, file_idx, all_transactions, flashes, saved>>

\* parse_transactions_from_pdf, first attempt
AttemptTables ==
    /\ pdf_pc = "tables"
    /\ pdf_calls' = Append(pdf_calls, "extract_tables_from_pdf")
    /\ LET out == files[file_idx + 1].tab
       IN  IF out.raises
           THEN pdf_pc' = "raised" /\ UNCHANGED pdf_result
           ELSE \E transactions \in {parse_transactions_from_tables(out.value)} :
                    IF transactions # <<>>
                    THEN pdf_pc' = "returned" /\ pdf_result' = transactions
                    ELSE pdf_pc' = "text" /\ UNCHANGED pdf_result
    /\ UNCHANGED <<files, file_idx, all_transactions, flashes, saved>>

\* parse_transactions_from_pdf, second attempt
AttemptText ==
    /\ pdf_pc = "text"
    /\ pdf_calls' = Append(pdf_calls, "extract_text_lines_from_pdf")
    /\ LET out == files[file_idx + 1].txt
       IN  IF out.raises
           THEN pdf_pc' = "raised" /\ UNCHANGED pdf_result
           ELSE \E transactions \in {parse_transactions_from_text_lines(out.value)} :
                    IF transactions # <<>>
                    THEN pdf_pc' = "returned" /\ pdf_result' = transactions
                    ELSE pdf_pc' = "ocr" /\ UNCHANGED pdf_result
    /\ UNCHANGED <<files, file_idx, all_transactions, flashes, saved>>

\* parse_transactions_from_pdf, third attempt
AttemptOcr ==
    /\ pdf_pc = "ocr"
    /\ pdf_calls' = Append(pdf_calls, "extract_text_with_ocr")
    /\ LET out == files[file_idx + 1].ocr
       IN  IF out.raises
           THEN pdf_pc' = "raised" /\ UNCHANGED pdf_result
           ELSE /\ pdf_pc' = "returned"
                /\ pdf_result' = IF out.value = <<>> THEN <<>>
                                 ELSE parse_transactions_from_text_lines(out.value)
    /\ UNCHANGED <<files, file_idx, all_transactions, flashes, saved>>

\* faulty variant: a document that fails ends the batch and drops what was collected
UploadExceptAbortsBatch ==
    /\ pdf_pc = "raised"
    /\ flashes' = Append(flashes, Flash("danger", "Erro ao processar PDF", file_idx + 1))
    /\ file_idx' = Len(files)
    /\ all_transactions' = <<>>
    /\ pdf_pc' = "idle"
    /\ UNCHANGED <<files, pdf_calls, pdf_result, saved>>

\* upload: `except Exception` around the call
UploadExcept ==
    /\ pdf_pc = "raised"
    /\ flashes' = Append(flashes, Flash("danger", "Erro ao processar PDF", file_idx + 1))
    /\ file_idx' = file_idx + 1
    /\ pdf_pc' = "idle"
    /\ UNCHANGED <<files, pdf_calls, pdf_result, all_transactions, saved>>

\* upload: the call returned txns
UploadCollect ==
    /\ pdf_pc = "returned"
    /\ flashes' = IF pdf_result = <<>>
                  THEN Append(flashes, Flash("warning", "Nenhuma transação encontrada", file_idx + 1))
                  ELSE flashes
    /\ all_transactions' = all_transactions \o pdf_result
    /\ file_idx' = file_idx + 1
    /\ pdf_pc' = "idle"
    /\ UNCHANGED <<files, pdf_calls, pdf_result, saved>>

\* upload: after the loop; saved is the sequence of arguments save_transactions got
UploadFinish ==
    /\ pdf_pc = "idle"
    /\ files # <<>>
    /\ file_idx = Len(files)
    /\ IF all_transactions # <<>>
       THEN /\ saved' = Append(saved, all_transactions)
            /\ flashes' = Append(flashes, Flash("success", "transações importadas com sucesso.",
                                                Len(all_transactions)))
       ELSE /\ saved' = saved
            /\ flashes' = Append(flashes, Flash("warning", "Nenhuma transação importada.", 0))
    /\ pdf_pc' = "done"
    /\ UNCHANGED <<files, file_idx, pdf_calls, pdf_result, all_transactions>>

Init == NmIdle /\ LinesIdle /\ TablesIdle /\ UploadInit /\ DbIdle

Next ==
    \/ UploadNoFiles /\ UNCHANGED <<nm_vars, line_vars, table_vars, db_vars>>
    \/ UploadNextFile /\ UNCHANGED <<nm_vars, line_vars, table_vars, db_vars>>
    \/ AttemptTables /\ UNCHANGED <<nm_vars, line_vars, table_vars, db_vars>>
    \/ AttemptText /\ UNCHANGED <<nm_vars, line_vars, table_vars, db_vars>>
    \/ AttemptOcr /\ UNCHANGED <<nm_vars, line_vars, table_vars, db_vars>>
    \/ UploadExcept /\ UNCHANGED <<nm_vars, line_vars, table_vars, db_vars>>
    \/ UploadCollect /\ UNCHANGED <<nm_vars, line_vars, table_vars, db_vars>>
    \/ UploadFinish /\ UNCHANGED <<nm_vars, line_vars, table_vars, db_vars>>

Spec == Init /\ [][Next]_vars

-----------------------------------------------------------------------------
(***************************************************************************)
(* The category store: SpecCategories                                      *)
(*                                                                         *)
(* save_transactions, update_category and clear_category each open a      *)
(* connection, run their statements and commit once at the end, so each    *)
(* is one step on the committed rows of the two tables.  The id columns    *)
(* and created_at (the clock's reading) are left out of the rows.          *)
(***************************************************************************)

DecimalDigits == "0123456789"

RECURSIVE ZeroPadded(_, _)
\* n in decimal, width digits
ZeroPadded(n, width) ==
    IF width = 0 THEN ""
    ELSE ZeroPadded(n \div 10, width - 1) \o SubSeq(DecimalDigits, (n % 10) + 1, (n % 10) + 1)

\* txn.date.date().isoformat()
IsoFormat(date) ==
    ZeroPadded(date[1], 4) \o "-" \o ZeroPadded(date[2], 2) \o "-" \o ZeroPadded(date[3], 2)

\* known.get(merchant), known being the dict made of the merchant_category rows
KnownGet(rows, merchant_) ==
    LET found == {r \in rows : r.merchant_normalized = merchant_}
    IN  IF found = {} THEN None ELSE Some((CHOOSE r \in found : TRUE).category)

\* the row INSERT INTO transactions writes
StoredRow(txn, category) ==
    [date |-> IsoFormat(txn.date), description_full |-> txn.description_full,
     merchant_normalized |-> txn.merchant_normalized, txn_type |-> txn.txn_type,
     amount |-> txn.amount, category |-> category]

\* INSERT INTO merchant_category ... ON CONFLICT(merchant_normalized) DO UPDATE
Upsert(rows, merchant_, category) ==
    {r \in rows : r.merchant_normalized # merchant_} \cup
    {[merchant_normalized |-> merchant_, category |-> category]}

\* UPDATE transactions SET category=? WHERE merchant_normalized=?
UpdateWhereMerchant(rows, merchant_, category) ==
    [i \in 1..Len(rows) |->
        IF rows[i].merchant_normalized = merchant_
        THEN [rows[i] EXCEPT !.category = category]
        ELSE rows[i]]

\* `not x` for a JSON field: absent, null or the empty string
Falsy(x) == x = None \/ x = Some("")

JsonOk == Some([status |-> 200, ok |-> TRUE, error |-> ""])
JsonError(message) == Some([status |-> 400, ok |-> FALSE, error |-> message])

\* what the parsers hand to save_transactions
SampleTransactions ==
    { Transaction(<<2025, 12, 15>>, "CREDITO DE SALARIO ACME", normalize_merchant("CREDITO DE SALARIO ACME"),
                  "credit", [n |-> 1350, d |-> 0]),
      Transaction(<<2025, 12, 17>>, "PADARIA JOAO", normalize_merchant("PADARIA JOAO"),
                  "debit", [n |-> 1199, d |-> 1]),
      Transaction(<<2025, 12, 18>>, "PIX ENVIADO", normalize_merchant("PIX ENVIADO"),
                  "debit", [n |-> 5, d |-> 0]) }

BatchInputs == SeqsUpTo(SampleTransactions, MaxBatch)

\* the "merchant" and "category" fields of the request's JSON body
MerchantInputs == {None, Some(""), Some("ACME"), Some("PADARIA JOAO")}
CategoryInputs == {None, Some(""), Some("Salario"), Some("Alimentacao")}

\* save_transactions(transactions)
SaveTransactions ==
    /\ \E transactions \in BatchInputs :
           /\ Len(db_transactions) + Len(transactions) <= MaxStored
           /\ db_transactions' =
                  IF transactions = <<>> THEN db_transactions
                  ELSE db_transactions \o
                       [i \in 1..Len(transactions) |->
                           StoredRow(transactions[i],
                                     KnownGet(db_merchant_category,
                                              transactions[i].merchant_normalized))]
    /\ UNCHANGED <<db_merchant_category, response>>

\* faulty variant: the category is remembered but the stored transactions are
\* not updated
UpdateCategoryMemoryOnly ==
    \E merchant_ \in MerchantInputs, category \in CategoryInputs :
        IF Falsy(merchant_)
        THEN response' = JsonError("Merchant obrigatório.") /\ UNCHANGED <<db_transactions, db_merchant_category>>
        ELSE IF Falsy(category)
        THEN response' = JsonError("Categoria obrigatória.") /\ UNCHANGED <<db_transactions, db_merchant_category>>
        ELSE /\ db_merchant_category' = Upsert(db_merchant_category, merchant_[1], category[1])
             /\ response' = JsonOk
             /\ UNCHANGED db_transactions

\* POST /update-category
UpdateCategory ==
    \E merchant_ \in MerchantInputs, category \in CategoryInputs :
        IF Falsy(merchant_)
        THEN /\ response' = JsonError("Merchant obrigatório.")
             /\ UNCHANGED <<db_transactions, db_merchant_category>>
        ELSE IF Falsy(category)
        THEN /\ response' = JsonError("Categoria obrigatória.")
             /\ UNCHANGED <<db_transactions, db_merchant_category>>
        ELSE /\ db_merchant_category' = Upsert(db_merchant_category, merchant_[1], category[1])
             /\ db_transactions' = UpdateWhereMerchant(db_transactions, merchant_[1], category)
             /\ response' = JsonOk

\* POST /clear-category
ClearCategory ==
    \E merchant_ \in MerchantInputs :
        IF Falsy(merchant_)
        THEN /\ response' = JsonError("Merchant obrigatório.")
             /\ UNCHANGED <<db_transactions, db_merchant_category>>
        ELSE /\ db_merchant_category' =
                    {r \in db_merchant_category : r.merchant_normalized # merchant_[1]}
             /\ db_transactions' = UpdateWhereMerchant(db_transactions, merchant_[1], None)
             /\ response' = JsonOk

InitCategories == NmIdle /\ LinesIdle /\ TablesIdle /\ UploadIdle /\ DbIdle

NextCategories ==
    \/ SaveTransactions /\ UNCHANGED <<nm_vars, line_vars, table_vars, upload_vars>>
    \/ UpdateCategory /\ UNCHANGED <<nm_vars, line_vars, table_vars, upload_vars>>
    \/ ClearCategory /\ UNCHANGED <<nm_vars, line_vars, table_vars, upload_vars>>

SpecCategories == InitCategories /\ [][NextCategories]_vars

-----------------------------------------------------------------------------
(* Properties *)

\* the amount c / 100
Cents(c) == DecNorm([n |-> c, d |-> 2])

\* the text line parsed last and the table row parsed last
LastLine == TextLineBody(lines[line_idx])
LastRow == TableRowBody(tables[row_idx], tables[header_row_index], col_map)

\* C1: every Transaction parse_transactions_from_text_lines and
\* parse_transactions_from_tables emit has amount > 0, whatever the sign of the
\* parsed credit and debit values
C1_EveryAmountPositive ==
    /\ \A k \in 1..Len(line_txns) : DecIsPositive(line_txns[k].amount)
    /\ \A k \in 1..Len(table_txns) : DecIsPositive(table_txns[k].amount)

\* C2: an extractor's failure is caught inside parse_transactions_from_pdf: no
\* exception leaves the call
C2_NoExceptionLeavesThePipeline == pdf_pc # "raised"

AttemptOrder ==
    <<"extract_tables_from_pdf", "extract_text_lines_from_pdf", "extract_text_with_ocr">>

InPdfCall == pdf_pc \in {"tables", "text", "ocr", "returned", "raised"}

CurrentFile == files[file_idx + 1]

TableAttempt(f) == IF f.tab.raises THEN <<>> ELSE parse_transactions_from_tables(f.tab.value)
TextAttempt(f) == IF f.txt.raises THEN <<>> ELSE parse_transactions_from_text_lines(f.txt.value)

\* C3: the extractors are called in the order table, text lines, OCR; when the
\* table attempt yields transactions no other extractor is called and the result
\* is the table attempt's; when the table attempt is empty and the text-line
\* attempt yields transactions the OCR extractor is not called
C3_FirstNonEmptyAttemptWins ==
    InPdfCall =>
        /\ pdf_calls = SubSeq(AttemptOrder, 1, Len(pdf_calls))
        /\ TableAttempt(CurrentFile) # <<>> =>
               /\ pdf_pc \in {"tables", "returned"}
               /\ pdf_calls = SubSeq(AttemptOrder, 1, IF pdf_pc = "tables" THEN 0 ELSE 1)
               /\ pdf_pc = "returned" => pdf_result = TableAttempt(CurrentFile)
        /\ (/\ ~CurrentFile.tab.raises
            /\ TableAttempt(CurrentFile) = <<>>
            /\ TextAttempt(CurrentFile) # <<>>) =>
               /\ pdf_pc \in {"tables", "text", "returned"}
               /\ Len(pdf_calls) <= 2
               /\ pdf_pc = "returned" => pdf_result = TextAttempt(CurrentFile)

C3_Witness ==
    /\ pdf_pc = "returned"
    /\ pdf_calls = <<"extract_tables_from_pdf">>
    /\ pdf_result # <<>>
    /\ TextAttempt(CurrentFile) # <<>>
    /\ CurrentFile.ocr = Returns(OcrLines)

\* C4: normalize_merchant(normalize_merchant(x)) = normalize_merchant(x) for
\* every description x
C4_Idempotent == nm_calls = 2 => merchant_again = merchant

\* the two transactions of the seed scenario, with the given merchants
SmokeResult(txns, credit_merchant, debit_merchant) ==
    /\ Len(txns) = 2
    /\ \E k \in 1..Len(txns) :
           /\ txns[k].txn_type = "credit"
           /\ txns[k].amount = Cents(135000)
           /\ txns[k].date = <<2025, 12, 15>>
           /\ txns[k].merchant_normalized = credit_merchant
    /\ \E k \in 1..Len(txns) :
           /\ txns[k].txn_type = "debit"
           /\ txns[k].amount = Cents(11990)
           /\ txns[k].date = <<2025, 12, 17>>
           /\ txns[k].merchant_normalized = debit_merchant

\* C5: the two lines of run_smoke_test give exactly two Transactions: a credit
\* of 1350.00 on 2025-12-15 with merchant "ACME LTDA" and a debit of 119.90 on
\* 2025-12-17 with merchant "STRIPE BRASIL SOLUCOES DE"
C5_SeedScenario ==
    (line_pc = "returned" /\ lines = SmokeLines) =>
        SmokeResult(line_txns, "ACME LTDA", "STRIPE BRASIL SOLUCOES DE")

\* C5, amended: the same two Transactions, whose merchants keep the document
\* numbers that stand between the description and the first amount:
\* "ACME LTDA 000000 000000" and "STRIPE BRASIL SOLUCOES DE 000000 000000"
C5_SeedScenarioWithDocumentNumbers ==
    (line_pc = "returned" /\ lines = SmokeLines) =>
        SmokeResult(line_txns, "ACME LTDA 000000 000000",
                    "STRIPE BRASIL SOLUCOES DE 000000 000000")

C5_Witness == line_pc = "returned" /\ lines = SmokeLines /\ Len(line_txns) = 2

IsNonZero(amount) == amount # None /\ amount[1].n # 0

\* what one row or line may add to the transactions: at most two, and a debit and
\* a credit alike in everything else when both parsed values are non-zero
PairRule(before, after, body) ==
    LET new == SubSeq(after, Len(before) + 1, Len(after))
    IN  /\ Len(after) >= Len(before)
        /\ SubSeq(after, 1, Len(before)) = before
        /\ Len(new) <= 2
        /\ (IsNonZero(body.credit) /\ IsNonZero(body.debit)) =>
               /\ Len(new) = 2
               /\ {new[1].txn_type, new[2].txn_type} = {"debit", "credit"}
               /\ new[1].date = new[2].date
               /\ new[1].description_full = new[2].description_full
               /\ new[1].merchant_normalized = new[2].merchant_normalized

\* C6: one table row or text line adds at most two Transactions, and exactly
\* two, a debit and a credit with the same date, description_full and
\* merchant_normalized, when its parsed credit and debit are both non-zero
C6_AtMostTwoPerRowOrLine ==
    [][ /\ (line_pc = "loop" /\ line_idx' = line_idx + 1) =>
               PairRule(line_txns, line_txns', TextLineBody(lines[line_idx + 1]))
        /\ (table_pc = "rows" /\ row_idx' = row_idx + 1) =>
               PairRule(table_txns, table_txns',
                        TableRowBody(tables[row_idx + 1], tables[header_row_index], col_map))
      ]_vars

C6_Witness ==
    \/ /\ line_pc = "loop" /\ line_idx >= 1
       /\ IsNonZero(LastLine.credit) /\ IsNonZero(LastLine.debit)
       /\ Len(line_txns) >= 2
    \/ /\ table_pc = "rows" /\ row_idx > header_row_index
       /\ IsNonZero(LastRow.credit) /\ IsNonZero(LastRow.debit)
       /\ Len(table_txns) >= 2

\* what parse_transactions_from_pdf does with a file: whether the call raises, and
\* the transactions it returns when it does not
PdfRaises(f) ==
    \/ f.tab.raises
    \/ TableAttempt(f) = <<>> /\ f.txt.raises
    \/ TableAttempt(f) = <<>> /\ TextAttempt(f) = <<>> /\ f.ocr.raises

PdfReturns(f) ==
    IF TableAttempt(f) # <<>> THEN TableAttempt(f)
    ELSE IF TextAttempt(f) # <<>> THEN TextAttempt(f)
    ELSE parse_transactions_from_text_lines(f.ocr.value)

RECURSIVE SiblingTransactions(_, _)
\* the transactions of the first n files, those of the documents that fail left out
SiblingTransactions(fs, n) ==
    IF n = 0 THEN <<>>
    ELSE SiblingTransactions(fs, n - 1) \o
         (IF fs[n].is_pdf /\ ~PdfRaises(fs[n]) THEN PdfReturns(fs[n]) ELSE <<>>)

ReportedFailed(i) ==
    \E k \in 1..Len(flashes) : flashes[k].category = "danger" /\ flashes[k].about = i

\* C7: in upload, a document for which parse_transactions_from_pdf raises is
\* reported as failed and contributes nothing, and the transactions of every
\* other document of the batch, before and after it, are all passed to
\* save_transactions
C7_FailureIsolatedToItsDocument ==
    (pdf_pc = "done" /\ files # <<>>) =>
        /\ file_idx = Len(files)
        /\ all_transactions = SiblingTransactions(files, Len(files))
        /\ saved = IF all_transactions = <<>> THEN <<>> ELSE <<all_transactions>>
        /\ \A i \in 1..Len(files) :
               ReportedFailed(i) <=> (files[i].is_pdf /\ PdfRaises(files[i]))

C7_Witness ==
    /\ pdf_pc = "done"
    /\ Len(files) >= 2
    /\ files[1].is_pdf /\ PdfRaises(files[1]) /\ ReportedFailed(1)
    /\ files[2].is_pdf /\ ~PdfRaises(files[2]) /\ PdfReturns(files[2]) # <<>>
    /\ saved = <<PdfReturns(files[2])>>

ColumnRoles == {"date", "description", "credit", "debit"}

\* the header cells the if/elif chain assigns to a role
RoleColumns(header, role) == {i \in 1..Len(header) : CellRole(header[i]) = role}

FirstColumns(header) ==
    [role \in ColumnRoles |->
        IF RoleColumns(header, role) = {} THEN 0 ELSE MinOf(RoleColumns(header, role))]

LastColumns(header) ==
    [role \in ColumnRoles |->
        IF RoleColumns(header, role) = {} THEN 0 ELSE MaxOf(RoleColumns(header, role))]

HeaderFound == table_pc \in {"rows", "returned"} /\ header_row_index # 0

\* C8: the first match per role wins: a role that several header cells match is
\* mapped to the lowest-index of them, and the data rows are read from that column
C8_FirstMatchPerRoleWins ==
    HeaderFound =>
        /\ \A role \in ColumnRoles : col_map[role] = FirstColumns(tables[header_row_index])[role]
        /\ HasRequiredCols(col_map) =>
               table_txns = TableRowsFrom(SubSeq(tables, 1, row_idx), header_row_index + 1,
                                          tables[header_row_index],
                                          FirstColumns(tables[header_row_index]), <<>>)

\* C8, amended: the last match per role wins: a role that several header cells
\* are assigned to is mapped to the highest-index of them, and the data rows are
\* read from that column
C8_LastMatchPerRoleWins ==
    HeaderFound =>
        /\ \A role \in ColumnRoles : col_map[role] = LastColumns(tables[header_row_index])[role]
        /\ HasRequiredCols(col_map) =>
               table_txns = TableRowsFrom(SubSeq(tables, 1, row_idx), header_row_index + 1,
                                          tables[header_row_index],
                                          LastColumns(tables[header_row_index]), <<>>)

C8_Witness ==
    /\ table_pc = "returned"
    /\ header_row_index # 0
    /\ \E role \in ColumnRoles : Cardinality(RoleColumns(tables[header_row_index], role)) >= 2
    /\ table_txns # <<>>

\* C9 for one line and the transactions it gives
TwoAmountRule(line, txns) ==
    LET raw == Strip(line)
        body == TextLineBody(line)
        found == MoneyFindIter(raw)
    IN  /\ Len(found) < 2 => txns = <<>>
        /\ Len(body.money) = 2 =>
               /\ Len(txns) <= 1
               /\ Len(txns) = 1 =>
                      LET is_credit == \E key \in CreditKeywords :
                                           Contains(strip_accents(Upper(txns[1].description_full)), key)
                          first == parse_brl_amount(body.money[1])[1]
                      IN  /\ txns[1].txn_type = IF is_credit THEN "credit" ELSE "debit"
                          /\ txns[1].amount = IF is_credit THEN first ELSE DecAbs(first)

\* C9: a dated line with exactly two monetary matches gives at most one
\* Transaction, its amount the first match, a credit if and only if the
\* accent-stripped, upper-cased description contains "CREDITO", "PIX RECEBIDO" or
\* "DEPOSITO" and a debit otherwise; a line with fewer than two matches gives none
C9_TwoAmountsDirectionByKeyword ==
    (line_pc = "returned" /\ Len(lines) = 1) => TwoAmountRule(lines[1], line_txns)

\* what parse_transactions_from_text_lines returns for each input line on its own
LineOnItsOwn ==
    [line \in LineInputs \cup {SmokeLines[k] : k \in 1..Len(SmokeLines)} |->
        parse_transactions_from_text_lines(<<line>>)]

\* what parse_transactions_from_tables returns for each data row on its own,
\* under each header
RowOnItsOwn ==
    [header \in HeaderInputs, row \in RowInputs |->
        parse_transactions_from_tables(<<header, row>>)]

RECURSIVE LinesOneByOne(_, _)
\* the results of parsing each of the first n lines on its own, concatenated
LinesOneByOne(ls, n) ==
    IF n = 0 THEN <<>> ELSE LinesOneByOne(ls, n - 1) \o LineOnItsOwn[ls[n]]

RECURSIVE RowsOneByOne(_, _, _)
\* the same for the rows h+1 .. n of a table whose header is row h
RowsOneByOne(tbl, h, n) ==
    IF n <= h THEN <<>> ELSE RowsOneByOne(tbl, h, n - 1) \o RowOnItsOwn[tbl[h], tbl[n]]

\* C10: a skipped line or row neither ends the scan nor changes what was
\* accumulated: at every point of the scan the transactions are the concatenation,
\* in input order, of the results of the lines (rows) read so far, each parsed on
\* its own; a skipped one leaves them as they were; and the scan ends only after
\* the last line (row)
C10_SkippedLinesLeaveTheScanAlone ==
    /\ (line_pc \in {"loop", "returned"} /\ line_idx >= 1) =>
           /\ line_txns = LinesOneByOne(lines, line_idx)
           /\ LastLine.skip # "" => line_txns = LinesOneByOne(lines, line_idx - 1)
    /\ line_pc = "returned" => line_idx = Len(lines)
    /\ (HeaderFound /\ HasRequiredCols(col_map) /\ row_idx > header_row_index) =>
           /\ table_txns = RowsOneByOne(tables, header_row_index, row_idx)
           /\ LastRow.skip # "" =>
                  table_txns = RowsOneByOne(tables, header_row_index, row_idx - 1)
    /\ (HeaderFound /\ HasRequiredCols(col_map) /\ table_pc = "returned") =>
           row_idx = Len(tables)

C10_Witness ==
    /\ line_pc = "returned"
    /\ Len(lines) = 2
    /\ TextLineBody(lines[1]).skip # ""
    /\ line_txns # <<>>
    /\ line_txns = LineOnItsOwn[lines[2]]

\* the merchant_category rows of a merchant
Remembered(merchant_) == {r \in db_merchant_category : r.merchant_normalized = merchant_}

\* C11: after any sequence of save_transactions, update_category and
\* clear_category, every stored transaction's category is the category
\* merchant_category holds for its merchant_normalized, and is null when
\* merchant_category has no row for that merchant
C11_CategoryFollowsMerchantMemory ==
    \A i \in 1..Len(db_transactions) :
        LET row == db_transactions[i]
            memory == Remembered(row.merchant_normalized)
        IN  IF memory = {}
            THEN row.category = None
            ELSE /\ row.category # None
                 /\ memory = {[merchant_normalized |-> row.merchant_normalized,
                               category |-> row.category[1]]}

\* a full table after a route has answered: two rows of one merchant carrying
\* its remembered category, and a row of a merchant that has none
C11_Witness ==
    /\ Len(db_transactions) = MaxStored
    /\ \E i, k \in 1..Len(db_transactions) :
           /\ i < k
           /\ db_transactions[i].merchant_normalized = "ACME"
           /\ db_transactions[k].merchant_normalized = "ACME"
           /\ db_transactions[i].category = Some("Alimentacao")
           /\ db_transactions[k].category = Some("Alimentacao")
    /\ \E i \in 1..Len(db_transactions) :
           /\ db_transactions[i].merchant_normalized = "PADARIA JOAO"
           /\ db_transactions[i].category = None
    /\ Remembered("PADARIA JOAO") = {}
    /\ response = JsonOk

=============================================================================
